---- MODULE Spec2Model ----
(***************************************************************************)
(* Model of src/src/pages/ProductsPage.tsx.                                *)
(*                                                                         *)
(* The file holds two programs:                                            *)
(*   - the ProductsPage React component (lines 13-203): one fetch on       *)
(*     mount, three filter arrays, a sort key and the effect that derives  *)
(*     filteredProducts from them;                                         *)
(*   - the Deno.serve handler (lines 247-326), the "Normalizer": it reads  *)
(*     the vendor credential, calls the vendor API once and maps every     *)
(*     vendor product to a storefront product.                             *)
(*                                                                         *)
(* Prices are kept in hundredths (100.01 is 10001), so that the model has  *)
(* prices just above a band boundary while staying in the integers; the    *)
(* comparisons of the code are unaffected by the scale.                    *)
(***************************************************************************)
EXTENDS Integers, Sequences, FiniteSets, TLC

VARIABLES
    \* ---- ProductsPage state (useState, lines 18-34) ----
    products,          \* line 18
    loading,           \* line 19
    error,             \* line 20
    filteredProducts,  \* line 21
    activeFilters,     \* lines 24-32
    sortBy,            \* line 34
    \* ---- ProductsPage control ----
    fetchPc,           \* position of fetchProducts (lines 37-56)
    effectPending,     \* the derivation effect (62-102) is scheduled
    gets,              \* GETs issued to the Normalizer endpoint by this mount
    fetched,           \* what the network delivered to this mount's GET
    \* ---- Normalizer (Deno.serve handler) ----
    nPc,               \* "idle", "awaitVendor", "responded"
    nMethod,           \* req.method of the request being served
    nKey,              \* Deno.env.get('PRINTFUL_API_KEY')
    nVendor,           \* what the vendor call settled with
    nCalls,            \* outbound vendor calls made for this request
    nResponse          \* the Response returned

pageVars == <<products, loading, error, filteredProducts, activeFilters,
              sortBy, fetchPc, effectPending, gets, fetched>>
normVars == <<nPc, nMethod, nKey, nVendor, nCalls, nResponse>>
vars == <<products, loading, error, filteredProducts, activeFilters,
          sortBy, fetchPc, effectPending, gets, fetched,
          nPc, nMethod, nKey, nVendor, nCalls, nResponse>>

-----------------------------------------------------------------------------
(* Bounds *)

MaxProducts == 2   \* longest product list drawn as the input of the derivation
MaxFetched  == 2   \* longest product array the page's fetch returns
MaxChosen   == 2   \* most entries chosen in one filter dimension of a drawn selection
MaxVariants == 2   \* most variants of one vendor product
MaxVendorProducts == 2   \* most products in the vendor's payload

-----------------------------------------------------------------------------
(* Generic array helpers (JavaScript Array semantics) *)

Range(s) == {s[i] : i \in DOMAIN s}

\* Array.prototype.includes
Includes(arr, x) == \E i \in DOMAIN arr : arr[i] = x

\* number of occurrences of x in arr
Count(arr, x) == Cardinality({i \in DOMAIN arr : arr[i] = x})

\* all sequences over S of length at most n
SeqsUpTo(S, n) == UNION {[1..k -> S] : k \in 0..n}

\* the sequences of SeqsUpTo(S, n) without a repeated element
DistinctSeqs(S, n) ==
    {s \in SeqsUpTo(S, n) : \A i, j \in DOMAIN s : s[i] = s[j] => i = j}

Cents(units) == units * 100

Null == "null"

-----------------------------------------------------------------------------
(* Product universe *)

Categories == {"t-shirts", "hoodies"}
Sizes      == {"S", "M"}
PriceBands == {"under-50", "50-100", "100-150", "over-150"}
SortKeys   == {"price-low", "price-high", "newest", "featured"}

Prod(id, price, category, sizes, isNew) ==
    [id |-> id, price |-> price, category |-> category,
     sizes |-> sizes, isNew |-> isNew]

ProdA == Prod("A", Cents(80), "t-shirts", <<"M">>, TRUE)
ProdB == Prod("B", Cents(20), "hoodies", <<"S", "M">>, FALSE)

\* products whose prices sit on and just above the band boundaries, and
\* two products (A and A2) with the same price
Catalog ==
    { ProdA, ProdB,
      Prod("A2",  Cents(80),      "hoodies",  <<"S">>,      TRUE),
      Prod("P50", Cents(50),      "t-shirts", <<"S">>,      TRUE),
      Prod("P100", Cents(100),    "hoodies",  <<"M">>,      FALSE),
      Prod("P100x", Cents(100) + 1, "t-shirts", <<"L">>,    TRUE),
      Prod("P150", Cents(150),    "t-shirts", <<"S", "M">>, FALSE),
      Prod("P150x", Cents(150) + 1, "hoodies", <<>>,        FALSE) }

\* the arrays the page's fetch may deliver
PageCatalog == { ProdA, ProdB }
FetchBodies == SeqsUpTo(PageCatalog, MaxFetched)

\* the values the page's controls pass to the three toggle handlers
CategoryChoices == Categories
PriceChoices    == {"under-50", "50-100"}
SizeChoices     == Sizes

EmptyFilters == [categories |-> <<>>, prices |-> <<>>, sizes |-> <<>>]

RECURSIVE Pick(_, _)
\* the entries of `order` that are in S, in the order of `order`
Pick(order, S) ==
    IF order = <<>> THEN <<>>
    ELSE IF Head(order) \in S
         THEN <<Head(order)>> \o Pick(Tail(order), S)
         ELSE Pick(Tail(order), S)

\* the selections of at most n entries of `order`, each in the order in
\* which the page lists its controls (the derivation reads the filter
\* arrays through includes and length only)
Selections(order, n) ==
    {Pick(order, S) : S \in {T \in SUBSET Range(order) : Cardinality(T) <= n}}

FilterSelections ==
    [categories : Selections(<<"t-shirts", "hoodies">>, MaxChosen),
     prices     : Selections(<<"under-50", "50-100", "100-150", "over-150">>, MaxChosen),
     sizes      : Selections(<<"S", "M">>, MaxChosen)]

-----------------------------------------------------------------------------
(* The derivation effect, lines 62-102 *)

\* lines 65-69
CategoryFilter(result, f) ==
    IF Len(f.categories) > 0
    THEN SelectSeq(result, LAMBDA product : Includes(f.categories, product.category))
    ELSE result

\* the price callback with the lower limit of "100-150" written >= 100
PricePredicateOverlap(product, prices) ==
    IF Includes(prices, "under-50") /\ product.price < Cents(50) THEN TRUE
    ELSE IF Includes(prices, "50-100") /\ product.price >= Cents(50)
                                       /\ product.price <= Cents(100) THEN TRUE
    ELSE IF Includes(prices, "100-150") /\ product.price >= Cents(100)
                                        /\ product.price <= Cents(150) THEN TRUE
    ELSE IF Includes(prices, "over-150") /\ product.price > Cents(150) THEN TRUE
    ELSE FALSE

\* lines 73-77: the callback of the price filter
PricePredicate(product, prices) ==
    IF Includes(prices, "under-50") /\ product.price < Cents(50) THEN TRUE
    ELSE IF Includes(prices, "50-100") /\ product.price >= Cents(50)
                                       /\ product.price <= Cents(100) THEN TRUE
    ELSE IF Includes(prices, "100-150") /\ product.price > Cents(100)
                                        /\ product.price <= Cents(150) THEN TRUE
    ELSE IF Includes(prices, "over-150") /\ product.price > Cents(150) THEN TRUE
    ELSE FALSE

\* lines 71-79
PriceFilter(result, f) ==
    IF Len(f.prices) > 0
    THEN SelectSeq(result, LAMBDA product : PricePredicate(product, f.prices))
    ELSE result

\* the size filter written with `every` in place of `some`
SizeFilterEvery(result, f) ==
    IF Len(f.sizes) > 0
    THEN SelectSeq(result, LAMBDA product :
             \A i \in DOMAIN product.sizes : Includes(f.sizes, product.sizes[i]))
    ELSE result

\* lines 81-85
SizeFilter(result, f) ==
    IF Len(f.sizes) > 0
    THEN SelectSeq(result, LAMBDA product :
             \E i \in DOMAIN product.sizes : Includes(f.sizes, product.sizes[i]))
    ELSE result

\* lines 62-85: the three filters in the order of the code
FilterStage(ps, f) == SizeFilter(PriceFilter(CategoryFilter(ps, f), f), f)

\* the comparators of lines 89, 92 and 95
Compare(key, a, b) ==
    CASE key = "price-low"  -> a.price - b.price
      [] key = "price-high" -> b.price - a.price
      [] key = "newest"     -> IF a.isNew = b.isNew THEN 0
                               ELSE IF a.isNew THEN -1 ELSE 1
      [] OTHER              -> 0

\* an insertion that places x before the elements it compares equal to
InsertUnstable(sorted, x, key) ==
    LET after == {i \in DOMAIN sorted : Compare(key, sorted[i], x) >= 0}
        pos   == IF after = {} THEN Len(sorted) + 1
                 ELSE CHOOSE i \in after : \A j \in after : i <= j
    IN  SubSeq(sorted, 1, pos - 1) \o <<x>> \o SubSeq(sorted, pos, Len(sorted))

\* x placed after every element that does not compare greater than it
InsertStable(sorted, x, key) ==
    LET after == {i \in DOMAIN sorted : Compare(key, sorted[i], x) > 0}
        pos   == IF after = {} THEN Len(sorted) + 1
                 ELSE CHOOSE i \in after : \A j \in after : i <= j
    IN  SubSeq(sorted, 1, pos - 1) \o <<x>> \o SubSeq(sorted, pos, Len(sorted))

RECURSIVE ArraySort(_, _)
\* Array.prototype.sort with a comparator: a stable sort (ECMAScript 2019)
ArraySort(arr, key) ==
    IF Len(arr) = 0 THEN arr
    ELSE InsertStable(ArraySort(SubSeq(arr, 1, Len(arr) - 1), key),
                      arr[Len(arr)], key)

\* the switch with a default case that falls into the "price-low" sort
SortStageDefaultSorts(result, key) ==
    IF key \in {"price-high", "newest"}
    THEN ArraySort(result, key)
    ELSE ArraySort(result, "price-low")

\* lines 87-99
SortStage(result, key) ==
    IF key \in {"price-low", "price-high", "newest"}
    THEN ArraySort(result, key)
    ELSE result

\* the derivation with line 63 written `let result = products`: while no
\* filter replaces result, the sort acts on the products array itself
DerivationInPlace(ps, f, key) ==
    [input  |-> IF Len(f.categories) = 0 /\ Len(f.prices) = 0 /\ Len(f.sizes) = 0
                THEN SortStage(ps, key)
                ELSE ps,
     result |-> SortStage(FilterStage(ps, f), key)]

\* Lines 62-101 as a whole.  `input` is the products array as the run
\* leaves it, `result` the array handed to setFilteredProducts.  Line 63
\* spreads products into a new array, so the in-place sorts of 89-95 act
\* on an array that is never the products array.
Derivation(ps, f, key) ==
    [input  |-> ps,
     result |-> SortStage(FilterStage(ps, f), key)]

-----------------------------------------------------------------------------
(* ProductsPage *)

NothingFetched == [kind |-> "pending", data |-> <<>>]

PageInit ==
    /\ products = <<>>
    /\ loading = TRUE
    /\ error = Null
    /\ filteredProducts = <<>>
    \* line 29: the `category` query parameter seeds the category filter
    /\ \E categoryParam \in Categories \cup {Null} :
          activeFilters = [EmptyFilters EXCEPT !.categories =
                              IF categoryParam # Null THEN <<categoryParam>> ELSE <<>>]
    /\ sortBy = "newest"
    /\ fetchPc = "mount"
    /\ effectPending = TRUE
    /\ gets = 0
    /\ fetched = NothingFetched

\* the Normalizer before a request: nothing served, nothing called
NoVendorOutcome ==
    [kind |-> "none", statusText |-> "", hasResult |-> FALSE, result |-> <<>>]

NoResponse == [status |-> 0, kind |-> "none", items |-> <<>>, error |-> Null]

NormIdle ==
    /\ nPc = "idle"
    /\ nMethod = Null
    /\ nKey = Null
    /\ nVendor = NoVendorOutcome
    /\ nCalls = 0
    /\ nResponse = NoResponse

Init == PageInit /\ NormIdle

\* The effects of the first render: lines 36-60 run fetchProducts up to its
\* first await (line 41), then lines 62-102 derive the list once.
MountEffects ==
    /\ fetchPc = "mount"
    /\ loading' = TRUE
    /\ gets' = gets + 1
    /\ fetchPc' = "awaitFetch"
    /\ LET d == Derivation(products, activeFilters, sortBy)
       IN  /\ products' = d.input
           /\ filteredProducts' = d.result
    /\ effectPending' = FALSE
    /\ UNCHANGED <<error, activeFilters, sortBy, fetched>>
    /\ UNCHANGED normVars

\* the catch without the finally block: loading is never reset
FetchFailedNoFinally(why) ==
    /\ fetched' = [kind |-> why, data |-> <<>>]
    /\ error' = "Failed to load products. Please try again later."
    /\ loading' = loading
    /\ fetchPc' = "done"
    /\ UNCHANGED <<products, filteredProducts, activeFilters, sortBy,
                   effectPending, gets>>

\* lines 50-55: catch and finally
FetchFailed(why) ==
    /\ fetched' = [kind |-> why, data |-> <<>>]
    /\ error' = "Failed to load products. Please try again later."
    /\ loading' = FALSE
    /\ fetchPc' = "done"
    /\ UNCHANGED <<products, filteredProducts, activeFilters, sortBy,
                   effectPending, gets>>

\* line 41 settles: the fetch rejects, or resolves with response.ok or not
FetchSettles(outcome) ==
    /\ fetchPc = "awaitFetch"
    /\ IF outcome = "ok"
       THEN /\ fetchPc' = "awaitJson"
            /\ UNCHANGED <<products, loading, error, filteredProducts,
                           activeFilters, sortBy, effectPending, gets, fetched>>
       ELSE FetchFailed(outcome)
    /\ UNCHANGED normVars

\* line 47 settles: response.json() rejects, or resolves with data
\* (lines 48-49, then finally)
JsonSettles(parsed, data) ==
    /\ fetchPc = "awaitJson"
    /\ IF parsed
       THEN /\ products' = data
            /\ error' = Null
            /\ loading' = FALSE
            /\ fetchPc' = "done"
            /\ effectPending' = TRUE
            /\ fetched' = [kind |-> "ok", data |-> data]
            /\ UNCHANGED <<filteredProducts, activeFilters, sortBy, gets>>
       ELSE FetchFailed("badJson")
    /\ UNCHANGED normVars

\* lines 62-102, run after a render in which a dependency changed
DerivationEffect ==
    /\ fetchPc # "mount"
    /\ effectPending
    /\ LET d == Derivation(products, activeFilters, sortBy)
       IN  /\ products' = d.input
           /\ filteredProducts' = d.result
    /\ effectPending' = FALSE
    /\ UNCHANGED <<loading, error, activeFilters, sortBy, fetchPc, gets, fetched>>
    /\ UNCHANGED normVars

\* The render that wires the filter and sort controls (lines 195-202) is
\* elided in the source; the handlers below are callable whenever the page
\* is mounted, which includes every moment at which the controls are shown.

\* the toggle of lines 111-113, 120-122, 129-131
Toggle(arr, x) ==
    IF Includes(arr, x)
    THEN SelectSeq(arr, LAMBDA c : c # x)
    ELSE Append(arr, x)

\* a new activeFilters object is a changed dependency of the effect
SetActiveFilters(f) ==
    /\ activeFilters' = f
    /\ effectPending' = TRUE
    /\ UNCHANGED <<products, loading, error, filteredProducts, sortBy,
                   fetchPc, gets, fetched>>
    /\ UNCHANGED normVars

\* lines 108-115
handleCategoryFilter(category) ==
    /\ fetchPc # "mount"
    /\ SetActiveFilters([activeFilters EXCEPT
                            !.categories = Toggle(activeFilters.categories, category)])

\* lines 117-124
handlePriceFilter(price) ==
    /\ fetchPc # "mount"
    /\ SetActiveFilters([activeFilters EXCEPT
                            !.prices = Toggle(activeFilters.prices, price)])

\* lines 126-133
handleSizeFilter(size) ==
    /\ fetchPc # "mount"
    /\ SetActiveFilters([activeFilters EXCEPT
                            !.sizes = Toggle(activeFilters.sizes, size)])

\* lines 135-141
clearAllFilters ==
    /\ fetchPc # "mount"
    /\ SetActiveFilters(EmptyFilters)

\* a dependency list without sortBy
SortDependencyIgnored(old, new) == FALSE

\* a state update to an equal string is no change of the dependency
\* list of line 102
SortDependencyChanged(old, new) == old # new

\* setSortBy (line 34), called by the sort control of the page
ChangeSort(key) ==
    /\ fetchPc # "mount"
    /\ sortBy' = key
    /\ effectPending' = (effectPending \/ SortDependencyChanged(sortBy, key))
    /\ UNCHANGED <<products, loading, error, filteredProducts, activeFilters,
                   fetchPc, gets, fetched>>
    /\ UNCHANGED normVars

\* line 183: "Try Again", offered by the error branch of lines 177-193,
\* which is rendered only when loading is false (line 169)
Reload ==
    /\ fetchPc # "mount"
    /\ ~loading
    /\ error # Null
    /\ products' = <<>>
    /\ loading' = TRUE
    /\ error' = Null
    /\ filteredProducts' = <<>>
    /\ \E categoryParam \in Categories \cup {Null} :
          activeFilters' = [EmptyFilters EXCEPT !.categories =
                               IF categoryParam # Null THEN <<categoryParam>> ELSE <<>>]
    /\ sortBy' = "newest"
    /\ fetchPc' = "mount"
    /\ effectPending' = TRUE
    /\ gets' = 0
    /\ fetched' = NothingFetched
    /\ UNCHANGED normVars

PageNext ==
    \/ MountEffects
    \/ \E outcome \in {"ok", "notOk", "rejected"} : FetchSettles(outcome)
    \/ \E parsed \in BOOLEAN, data \in FetchBodies : JsonSettles(parsed, data)
    \/ DerivationEffect
    \/ \E category \in CategoryChoices : handleCategoryFilter(category)
    \/ \E price \in PriceChoices : handlePriceFilter(price)
    \/ \E size \in SizeChoices : handleSizeFilter(size)
    \/ clearAllFilters
    \/ \E key \in SortKeys : ChangeSort(key)
    \/ Reload

Next == PageNext

Spec == Init /\ [][Next]_vars

\* The derivation applied to inputs drawn from the bounded sets: any product
\* list, any filter selection, any sort key, with the effect about to run.
DerivationInit ==
    /\ products \in DistinctSeqs(Catalog, MaxProducts)
    /\ activeFilters \in FilterSelections
    /\ sortBy \in SortKeys
    /\ loading = FALSE
    /\ error = Null
    /\ filteredProducts = <<>>
    /\ fetchPc = "done"
    /\ effectPending = TRUE
    /\ gets = 1
    /\ fetched = [kind |-> "ok", data |-> products]
    /\ NormIdle

DerivationNext == DerivationEffect

DerivationSpec == DerivationInit /\ [][DerivationNext]_vars

\* the page under the assumption that every step of the mount's fetch that
\* can be taken is eventually taken (the fetch settles)
FairSpec ==
    /\ Init /\ [][Next]_vars
    /\ WF_vars(MountEffects)
    /\ WF_vars(\E outcome \in {"ok", "notOk", "rejected"} : FetchSettles(outcome))
    /\ WF_vars(\E parsed \in BOOLEAN, data \in FetchBodies : JsonSettles(parsed, data))

-----------------------------------------------------------------------------
(* The Normalizer: Deno.serve handler, lines 247-326 *)

Opt(id, value) == [id |-> id, value |-> value]

Variant(price, files, options) ==
    [retail_price |-> price, files |-> files, options |-> options]

\* vendor variants (interface PrintfulProduct, lines 215-229): two variants
\* of the same color, one without a size or color option, and one without
\* a preview file
Variants ==
    { Variant("25.00", <<"img-s-red">>, <<Opt("size", "S"), Opt("color", "Red")>>),
      Variant("25.00", <<"img-m-red">>, <<Opt("size", "M"), Opt("color", "Red")>>),
      Variant("12.00", <<"img-plain">>, <<>>),
      Variant("27.50", <<>>,            <<Opt("color", "Blue"), Opt("size", "S")>>) }

\* the `result` arrays of the vendor payload: at most maxProducts products
\* of at most maxVariants different variants; the i-th product has id 7000+i
VendorResults(maxProducts, maxVariants) ==
    { [i \in DOMAIN vs |-> [id |-> 7000 + i, name |-> "Tee", variants |-> vs[i]]] :
        vs \in SeqsUpTo(DistinctSeqs(Variants, maxVariants), maxProducts) }

\* what the two awaits of lines 259 and 269 can deliver
VendorOutcomes(maxProducts, maxVariants) ==
    { [kind |-> "rejected", statusText |-> "", hasResult |-> FALSE, result |-> <<>>],
      [kind |-> "notOk", statusText |-> "Unauthorized", hasResult |-> FALSE, result |-> <<>>],
      [kind |-> "badJson", statusText |-> "OK", hasResult |-> FALSE, result |-> <<>>],
      [kind |-> "json", statusText |-> "OK", hasResult |-> FALSE, result |-> <<>>] }
    \cup
    { [kind |-> "json", statusText |-> "OK", hasResult |-> TRUE, result |-> r] :
        r \in VendorResults(maxProducts, maxVariants) }

\* new Response(JSON.stringify(formattedProducts), ...), lines 303-311:
\* no status given, so 200
OkResponse(items) ==
    [status |-> 200, kind |-> "array", items |-> items, error |-> Null]

\* lines 313-325
ErrorResponse(message) ==
    [status |-> 500, kind |-> "error", items |-> <<>>, error |-> message]

\* line 249
PreflightResponse ==
    [status |-> 200, kind |-> "empty", items |-> <<>>, error |-> Null]

\* the credential check written `printfulApiKey === undefined`
KeyUndefinedOnly(key) == key = Null

\* line 255: !printfulApiKey, true of undefined and of the empty string
KeyMissing(key) == key = Null \/ key = ""

\* String.prototype.toLowerCase on the color names of the model
ToLowerCase(str) ==
    CASE str = "Red"  -> "red"
      [] str = "Blue" -> "blue"
      [] OTHER        -> str

NaN == "NaN"

\* parseFloat on the retail prices of the model, in hundredths
ParseFloat(str) ==
    CASE str = "25.00" -> 2500
      [] str = "27.50" -> 2750
      [] str = "12.00" -> 1200
      [] OTHER         -> NaN

\* Array.prototype.find on the options of a variant: the first option with
\* that id, or NoOption for undefined
NoOption == Opt(Null, Null)

FindOption(options, id) ==
    LET hits == {i \in DOMAIN options : options[i].id = id}
    IN  IF hits = {} THEN NoOption
        ELSE options[CHOOSE i \in hits : \A j \in hits : i <= j]

RECURSIVE SetOfStrings(_)
\* [...new Set(strings)]: equal strings collapse, first occurrences in order
SetOfStrings(arr) ==
    IF Len(arr) = 0 THEN <<>>
    ELSE LET front == SetOfStrings(SubSeq(arr, 1, Len(arr) - 1))
             last  == arr[Len(arr)]
         IN  IF Includes(front, last) THEN front ELSE Append(front, last)

\* [...new Set(objects)]: a Set compares objects by identity, and every
\* object literal of lines 280-283 is a new object, so nothing collapses
SetOfObjects(arr) == arr

\* lines 274-276
UniqueSizes(product) ==
    SetOfStrings([i \in DOMAIN product.variants |->
        LET o == FindOption(product.variants[i].options, "size")
        IN  IF o = NoOption \/ o.value = "" THEN "One Size" ELSE o.value])

\* the null of line 283
NullColor == [name |-> Null, value |-> Null]

\* lines 278-284
UniqueColors(product) ==
    LET mapped == [i \in DOMAIN product.variants |->
                     LET colorOption == FindOption(product.variants[i].options, "color")
                     IN  IF colorOption # NoOption
                         THEN [name |-> colorOption.value,
                               value |-> ToLowerCase(colorOption.value)]
                         ELSE NullColor]
    IN  SetOfObjects(SelectSeq(mapped, LAMBDA c : c # NullColor))

\* lines 273-300 throw a TypeError when the product has no variant (289) or
\* a variant has no preview file (291, 292)
MapThrows(product) ==
    \/ Len(product.variants) = 0
    \/ \E i \in DOMAIN product.variants : Len(product.variants[i].files) = 0

MapError(product) ==
    IF Len(product.variants) = 0
    THEN "Cannot read properties of undefined (reading 'retail_price')"
    ELSE "Cannot read properties of undefined (reading 'preview_url')"

\* lines 286-300
MapProduct(product) ==
    LET mainVariant == product.variants[1]
    IN  [id        |-> ToString(product.id),
         name      |-> product.name,
         price     |-> ParseFloat(mainVariant.retail_price),
         description |-> product.name,
         imageUrl  |-> mainVariant.files[1],
         imageUrls |-> [i \in DOMAIN product.variants |-> product.variants[i].files[1]],
         category  |-> "t-shirts",
         tags      |-> <<"printful">>,
         sizes     |-> UniqueSizes(product),
         colors    |-> UniqueColors(product),
         inStock   |-> TRUE,
         isNew     |-> FALSE,
         isLimited |-> FALSE]

\* a mapping that drops the products it cannot map
MapAllSkipping(result) ==
    LET good == SelectSeq(result, LAMBDA product : ~MapThrows(product))
    IN  OkResponse([i \in DOMAIN good |-> MapProduct(good[i])])

\* lines 272-311 and the catch: products.map throws at the first product
\* that cannot be mapped, and then nothing of the array is returned
MapAll(result) ==
    LET bad == {i \in DOMAIN result : MapThrows(result[i])}
    IN  IF bad = {}
        THEN OkResponse([i \in DOMAIN result |-> MapProduct(result[i])])
        ELSE ErrorResponse(MapError(result[CHOOSE i \in bad : \A j \in bad : i <= j]))

\* lines 265-325 once the vendor call has settled
RespondTo(outcome) ==
    CASE outcome.kind = "rejected" -> ErrorResponse("error sending request")
      [] outcome.kind = "notOk"    ->
             ErrorResponse("Printful API error: " \o outcome.statusText)
      [] outcome.kind = "badJson"  -> ErrorResponse("Unexpected end of JSON input")
      [] outcome.kind = "json"     ->
             IF outcome.hasResult
             THEN MapAll(outcome.result)
             ELSE ErrorResponse("Cannot read properties of undefined (reading 'map')")

\* lines 247-263: a request arrives and is handled up to the await of 259
Serve(method, key) ==
    /\ nPc = "idle"
    /\ nMethod' = method
    /\ nKey' = key
    /\ IF method = "OPTIONS"
       THEN /\ nResponse' = PreflightResponse
            /\ nPc' = "responded"
            /\ UNCHANGED nCalls
       ELSE IF KeyMissing(key)
       THEN /\ nResponse' = ErrorResponse("Printful API key not configured")
            /\ nPc' = "responded"
            /\ UNCHANGED nCalls
       ELSE /\ nCalls' = nCalls + 1
            /\ nPc' = "awaitVendor"
            /\ UNCHANGED nResponse
    /\ UNCHANGED nVendor
    /\ UNCHANGED pageVars

\* lines 259-325: the vendor call settles and the response is produced
VendorSettles ==
    /\ nPc = "awaitVendor"
    /\ \E outcome \in VendorOutcomes(MaxVendorProducts, MaxVariants) :
          /\ nVendor' = outcome
          /\ nResponse' = RespondTo(outcome)
    /\ nPc' = "responded"
    /\ UNCHANGED <<nMethod, nKey, nCalls>>
    /\ UNCHANGED pageVars

\* the handler has returned; Deno.serve waits for the next request
NextRequest ==
    /\ nPc = "responded"
    /\ nPc' = "idle"
    /\ nMethod' = Null
    /\ nKey' = Null
    /\ nVendor' = NoVendorOutcome
    /\ nCalls' = 0
    /\ nResponse' = NoResponse
    /\ UNCHANGED pageVars

NormNext ==
    \/ \E method \in {"GET", "OPTIONS"}, key \in {Null, "", "secret"} : Serve(method, key)
    \/ VendorSettles
    \/ NextRequest

\* the Normalizer alone; the page stays as constructed
NormInit == Init /\ activeFilters = EmptyFilters

NormSpec == NormInit /\ [][NormNext]_vars

-----------------------------------------------------------------------------
(* Properties *)

\* the derivation effect has run on the current products, filters and sort key
Derived == fetchPc # "mount" /\ ~effectPending

KnownSortKeys == {"price-low", "price-high", "newest"}

AllFiltersEmpty ==
    /\ activeFilters.categories = <<>>
    /\ activeFilters.prices = <<>>
    /\ activeFilters.sizes = <<>>

\* the bands that accept a product when chosen alone
AcceptingBands(product) ==
    {b \in PriceBands : PricePredicate(product, <<b>>)}

\* C1: every price is accepted by exactly one of the four bands; 50 and 100
\* only by "50-100", 150 and any price just above 100 only by "100-150", any
\* price just above 150 only by "over-150"; and with a price filter alone a
\* product is displayed iff one of the chosen bands accepts its price.
C1_PriceBandsPartition ==
    Derived =>
      \A i \in DOMAIN products :
        LET p == products[i]
            accepting == AcceptingBands(p)
        IN  /\ Cardinality(accepting) = 1
            /\ p.price \in {Cents(50), Cents(100)} => accepting = {"50-100"}
            /\ p.price = Cents(150) => accepting = {"100-150"}
            /\ p.price = Cents(100) + 1 => accepting = {"100-150"}
            /\ p.price = Cents(150) + 1 => accepting = {"over-150"}
            /\ p.price < Cents(50) => accepting = {"under-50"}
            /\ (activeFilters.categories = <<>> /\ activeFilters.sizes = <<>>
                  /\ activeFilters.prices # <<>>)
               => (Includes(filteredProducts, p)
                     <=> accepting \cap Range(activeFilters.prices) # {})

C1_Witness ==
    /\ Derived
    /\ activeFilters = [EmptyFilters EXCEPT !.prices = <<"100-150", "over-150">>]
    /\ Len(products) = 2
    /\ products[1].price = Cents(100)
    /\ products[2].price = Cents(100) + 1
    /\ filteredProducts = <<products[2]>>

\* the band limits as section 4.2 of the specification words them
InBand(price, band) ==
    CASE band = "under-50" -> price < Cents(50)
      [] band = "50-100"   -> price >= Cents(50) /\ price <= Cents(100)
      [] band = "100-150"  -> price > Cents(100) /\ price <= Cents(150)
      [] band = "over-150" -> price > Cents(150)
      [] OTHER             -> FALSE

PassesAll(p, f) ==
    /\ f.categories = <<>> \/ p.category \in Range(f.categories)
    /\ f.prices = <<>> \/ \E b \in Range(f.prices) : InBand(p.price, b)
    /\ f.sizes = <<>> \/ Range(p.sizes) \cap Range(f.sizes) # {}

\* C2: a product is displayed iff it passes the category, price and size
\* predicates at once (an empty selection passes everything); it is displayed
\* as often as it occurs in the full list, and nothing else is displayed.
C2_DisplayedIffPassesAll ==
    Derived =>
      \A x \in Range(products) \cup Range(filteredProducts) :
        Count(filteredProducts, x) =
            IF PassesAll(x, activeFilters) THEN Count(products, x) ELSE 0

C2_Witness ==
    /\ Derived
    /\ activeFilters.categories # <<>>
    /\ activeFilters.sizes # <<>>
    /\ Len(products) = 2
    /\ Len(filteredProducts) = 1
    /\ \E i \in DOMAIN products :
          /\ products[i].category \in Range(activeFilters.categories)
          /\ Range(products[i].sizes) \cap Range(activeFilters.sizes) = {}

\* C3: with the three selections empty the filters return the full list
\* unchanged; a sort key other than the three known ones keeps the order the
\* filters produced; with both, the displayed list is the full list.
C3_EmptySelectionAndUnknownKey ==
    Derived =>
      /\ AllFiltersEmpty => FilterStage(products, activeFilters) = products
      /\ sortBy \notin KnownSortKeys =>
            /\ filteredProducts = FilterStage(products, activeFilters)
            /\ filteredProducts = SelectSeq(products,
                                     LAMBDA p : PassesAll(p, activeFilters))
      /\ (AllFiltersEmpty /\ sortBy \notin KnownSortKeys) =>
            filteredProducts = products

C3_Witness ==
    /\ Derived
    /\ AllFiltersEmpty
    /\ sortBy \notin KnownSortKeys
    /\ Len(products) = 2
    /\ products[1].price > products[2].price
    /\ ~products[1].isNew /\ products[2].isNew
    /\ filteredProducts = products

\* C4: the displayed list is the stable sort of the filtered list: ordered by
\* the active key, and products with equal keys in their filtered order; A
\* (new, 80) and B (not new, 20) come out [A, B] under "newest" and [B, A]
\* under "price-low" for either input order.
C4_StableSort ==
    Derived =>
      LET filtered == FilterStage(products, activeFilters)
          shown    == filteredProducts
      IN  /\ sortBy \in KnownSortKeys => Len(shown) = Len(filtered)
          /\ sortBy = "price-low" =>
               /\ \A i, j \in DOMAIN shown : i < j => shown[i].price <= shown[j].price
               /\ \A x \in Range(filtered) :
                     SelectSeq(shown, LAMBDA p : p.price = x.price)
                       = SelectSeq(filtered, LAMBDA p : p.price = x.price)
          /\ sortBy = "price-high" =>
               /\ \A i, j \in DOMAIN shown : i < j => shown[i].price >= shown[j].price
               /\ \A x \in Range(filtered) :
                     SelectSeq(shown, LAMBDA p : p.price = x.price)
                       = SelectSeq(filtered, LAMBDA p : p.price = x.price)
          /\ sortBy = "newest" =>
               /\ \A i, j \in DOMAIN shown :
                     (shown[i].isNew /\ ~shown[j].isNew) => i < j
               /\ \A b \in BOOLEAN :
                     SelectSeq(shown, LAMBDA p : p.isNew = b)
                       = SelectSeq(filtered, LAMBDA p : p.isNew = b)
          /\ filtered \in {<<ProdA, ProdB>>, <<ProdB, ProdA>>} =>
               /\ sortBy = "newest" => shown = <<ProdA, ProdB>>
               /\ sortBy = "price-low" => shown = <<ProdB, ProdA>>

\* two products of equal price kept in their filtered order under a price sort
C4_Witness ==
    /\ Derived
    /\ sortBy = "price-low"
    /\ Len(filteredProducts) = 2
    /\ filteredProducts = products
    /\ filteredProducts[1].price = filteredProducts[2].price
    /\ filteredProducts[1] # filteredProducts[2]

\* C5: the derivation, the toggle handlers, clearAllFilters and a change of
\* the sort key leave `products` as it was; only the success path of the
\* fetch (lines 47-49) changes it.
C5_OnlyFetchChangesProducts ==
    [][products' # products =>
          (fetchPc = "awaitJson" /\ fetchPc' = "done" /\ fetched'.kind = "ok")]_vars

\* the derivation has sorted (no filter active) and products kept its order
C5_Witness ==
    /\ Derived
    /\ AllFiltersEmpty
    /\ sortBy = "newest"
    /\ products = <<ProdB, ProdA>>
    /\ filteredProducts = <<ProdA, ProdB>>

\* the Normalizer has answered a GET
AnsweredGet == nPc = "responded" /\ nMethod = "GET"

\* C6: a GET with PRINTFUL_API_KEY absent or empty is answered with 500 and
\* a body with an `error` field, and no vendor call is made for it.
C6_MissingKeyIs500WithoutCall ==
    (nMethod = "GET" /\ nKey \in {Null, ""}) =>
        /\ nCalls = 0
        /\ nPc # "awaitVendor"
        /\ nPc = "responded" =>
              /\ nResponse.status = 500
              /\ nResponse.kind = "error"
              /\ nResponse.error # Null

C6_Witness ==
    /\ AnsweredGet
    /\ nKey = ""
    /\ nResponse.status = 500
    /\ nResponse.error = "Printful API key not configured"
    /\ nCalls = 0

\* a vendor product the mapping of lines 272-301 cannot map
Unmappable(product) ==
    \/ product.variants = <<>>
    \/ \E i \in DOMAIN product.variants : product.variants[i].files = <<>>

\* C7: the answer to a GET is either 200 with one mapped product per vendor
\* product, in vendor order, or 500 with {error} and no product; a vendor
\* failure or one unmappable product gives the 500; at most one vendor call.
C7_AllOrNothing ==
    /\ nCalls <= 1
    /\ AnsweredGet =>
        /\ \/ /\ nResponse.status = 200
              /\ nResponse.kind = "array"
              /\ nVendor.kind = "json" /\ nVendor.hasResult
              /\ Len(nResponse.items) = Len(nVendor.result)
              /\ \A i \in DOMAIN nVendor.result :
                    /\ nResponse.items[i].id = ToString(nVendor.result[i].id)
                    /\ Len(nResponse.items[i].imageUrls)
                         = Len(nVendor.result[i].variants)
           \/ /\ nResponse.status = 500
              /\ nResponse.kind = "error"
              /\ nResponse.error # Null
              /\ nResponse.items = <<>>
        /\ ( \/ nVendor.kind \in {"rejected", "notOk", "badJson"}
             \/ \E i \in DOMAIN nVendor.result : Unmappable(nVendor.result[i]) )
           => nResponse.status = 500

\* the second of two vendor products has no variant: 500, no product
C7_Witness ==
    /\ AnsweredGet
    /\ nVendor.kind = "json"
    /\ Len(nVendor.result) = 2
    /\ Len(nVendor.result[1].variants) = 2
    /\ ~Unmappable(nVendor.result[1])
    /\ nVendor.result[2].variants = <<>>
    /\ nResponse.status = 500
    /\ nResponse.items = <<>>
    /\ nCalls = 1

\* C8: in a mapped product `colors` holds each color name at most once, and
\* no null entry.
C8_ColorsDistinct ==
    (AnsweredGet /\ nResponse.status = 200) =>
        \A k \in DOMAIN nResponse.items :
            LET colors == nResponse.items[k].colors
            IN  /\ \A i, j \in DOMAIN colors :
                      colors[i].name = colors[j].name => i = j
                /\ \A i \in DOMAIN colors : colors[i] # NullColor

\* C9: one mount issues exactly one GET; loading is true until the fetch
\* settles and false from then on, and the fetch settling ends the loading
\* state; a failed fetch leaves an error and the empty product list, a
\* successful one no error and the returned array.
C9_Safety ==
    /\ gets <= 1
    /\ fetchPc # "mount" => gets = 1
    /\ fetchPc # "done" => (loading /\ fetched.kind = "pending")
    /\ fetchPc = "done" => ~loading
    /\ (fetchPc = "done" /\ fetched.kind \in {"rejected", "notOk", "badJson"}) =>
          (error # Null /\ products = <<>>)
    /\ (fetchPc = "done" /\ fetched.kind = "ok") =>
          (error = Null /\ products = fetched.data)
    /\ fetchPc = "done" => fetched.kind # "pending"

C9_OneFetchPerMount ==
    /\ []C9_Safety
    /\ [][~loading => (~loading' \/ fetchPc' = "mount")]_vars
    /\ [][gets' # gets => (fetchPc = "mount" \/ fetchPc' = "mount")]_vars
    /\ (loading ~> ~loading)

C9_Witness ==
    /\ fetchPc = "done"
    /\ fetched.kind = "badJson"
    /\ error # Null
    /\ ~loading
    /\ gets = 1

\* C10: once the pending derivation effect has run, the displayed list is the
\* derivation of the current products, filters and sort key.
C10_DisplayedIsDerivation ==
    Derived =>
      filteredProducts = Derivation(products, activeFilters, sortBy).result

C10_Witness ==
    /\ Derived
    /\ fetched.kind = "ok"
    /\ Len(products) = 2
    /\ sortBy = "price-high"
    /\ activeFilters.sizes = <<"M">>
    /\ activeFilters.categories = <<>>
    /\ filteredProducts # products
    /\ Len(filteredProducts) = 2

====
